---------------------------- MODULE Spec2Model ----------------------------
(***************************************************************************)
(* A model of datagovuk-scraper: one run of `run()` (datagovuk/__main__.py) *)
(* driving a Scraper (datagovuk/scraper.py): construction with the page-1  *)
(* bootstrap, get_datasets (validation, the page loop, the gathered detail *)
(* fetches), download (the gathered file transfers), save_metadata and the *)
(* finally block that closes the scraper's session.                        *)
(*                                                                         *)
(* The catalog served by data.gov.uk is the environment: `total` records,  *)
(* PER_PAGE rows on every result page but the last, record k at row        *)
(* ((k-1) % PER_PAGE)+1 of page ((k-1) \div PER_PAGE)+1, and `filesPer`    *)
(* files listed on every detail page (read when the records are built).    *)
(* A record is identified by its position k in the catalog (its dataset    *)
(* id).                                                                    *)
(***************************************************************************)
EXTENDS Integers, Sequences, FiniteSets

\* Scraper.PER_PAGE
PER_PAGE == 20

\* Bounds of the model.
MaxTotal == 22        \* largest catalog (records matching the query)
MaxNeg == 21          \* most negative --number-record tried is -MaxNeg
MaxFiles == 2         \* most files listed on a detail page
MaxOvertake == 2      \* a response overtakes fewer than this many older requests
MaxClock == 3         \* last clock reading, in ticks
MaxRuns == 2          \* runs of the program in SpecRerun
MaxRerunTotal == 2    \* largest catalog in SpecRerun
\* Clock ticks per whole second: time.time() is a float, int() keeps the second.
TicksPerSecond == 2

VARIABLES
    total,        \* environment: records matching the query on the server
    filesPer,     \* len(dataset.files): files listed on each fetched detail page
    count,        \* args.number_record
    pc,           \* where run() is
    error,        \* the exception propagating out of run(), "none" if none
    sessionOpen,  \* scraper.session is open (created and not closed)
    length,       \* scraper.length
    max_pages,    \* scraper.max_pages
    requested,    \* result pages fetched over HTTP so far (requests.get)
    pages,        \* get_datasets: pages
    last_page_item, \* get_datasets: last_page_item
    page,         \* get_datasets: the page loop's variable
    coros,        \* get_datasets: local list `datasets`, the row of each coroutine
    fetches,      \* status of each gathered detail fetch
    results,      \* the gather's result slots (0: not yet there)
    outOfOrder,   \* some detail fetch finished before an earlier-submitted one
    datasets,     \* scraper.datasets
    dlSessionOpen,\* download(): the ClientSession of its `async with`
    waits,        \* download(): local list `waits`, the target of each transfer
    transfers,    \* status of each gathered file transfer
    downloadCalled, \* download() was invoked in this run
    saveCalled,   \* save_metadata() was invoked in this run
    disk,         \* files under ~/datagovuk/<id>/
    rootDir,      \* ~/datagovuk exists
    metaDocs,     \* metadata documents: name (whole second) -> content
    clock,        \* the last clock reading, in ticks
    runs          \* runs of the program started so far

vars == <<total, filesPer, count, pc, error, sessionOpen, length, max_pages,
          requested, pages, last_page_item, page, coros, fetches, results,
          outOfOrder, datasets, dlSessionOpen, waits, transfers,
          downloadCalled, saveCalled, disk, rootDir, metaDocs, clock, runs>>

env == <<total, filesPer>>
files == <<disk, rootDir, metaDocs, clock>>

-----------------------------------------------------------------------------
\* Helpers

Min(a, b) == IF a <= b THEN a ELSE b
Max(a, b) == IF a >= b THEN a ELSE b

\* math.ceil(a / b) for b > 0
CeilDiv(a, b) == -((-a) \div b)

\* Python's s[:k]
SlicePrefix(s, k) ==
    IF k >= 0 THEN SubSeq(s, 1, Min(k, Len(s)))
    ELSE SubSeq(s, 1, Max(0, Len(s) + k))

\* The result rows data.gov.uk serves on page p of a catalog of `t` records:
\* find_all("div", {"class": "dgu-results__result"}) in on-page order.
ServerRows(t, p) ==
    [r \in 1..Max(0, Min(PER_PAGE, t - (p - 1) * PER_PAGE)) |-> (p - 1) * PER_PAGE + r]

\* scraper.max_pages
MaxPages(len) == CeilDiv(len, PER_PAGE)

\* get_datasets: pages.  (PagesNeededFloorPlusOne: the floor-plus-one slip, which
\* is wrong at the multiples of PER_PAGE.)
PagesNeededFloorPlusOne(c) == (c \div PER_PAGE) + 1
PagesNeeded(c) == CeilDiv(c, PER_PAGE)

\* get_datasets: last_page_item.  (LastPageItemOffByOne: an off-by-one slip.)
LastPageItemOffByOne(c, p) == c - ((p - 1) * PER_PAGE) - 1
LastPageItem(c, p) == c - ((p - 1) * PER_PAGE)

\* get_datasets: the first assert.  (CountValidOff: the assert left out.)
CountValidOff(c, len) == TRUE
CountValid(c, len) == c <= len

\* get_datasets: the second assert
PagesValid(p, maxp) == p <= maxp

\* get_datasets: the rows of page p kept for detail fetches.  (KeepAll: the last
\* page's slice left out.)
KeepAll(rows, p, ps, last) == rows
Keep(rows, p, ps, last) == IF p = ps THEN SlicePrefix(rows, last) ELSE rows

\* asyncio.gather: the children all start before any response is handled
StartAll(n) == [i \in 1..n |-> "inflight"]

InFlightSet(ts) == {i \in DOMAIN ts : ts[i] = "inflight"}
InFlight(ts) == Cardinality(InFlightSet(ts))
AllDone(ts) == \A i \in DOMAIN ts : ts[i] = "done"
SomeFailed(ts) == \E i \in DOMAIN ts : ts[i] = "failed"
FirstInFlight(ts) == CHOOSE i \in InFlightSet(ts) : \A j \in InFlightSet(ts) : i <= j

\* The responses that may arrive next: any in-flight one, within the overtake bound
CanComplete(ts, i) ==
    /\ i \in InFlightSet(ts)
    /\ i < FirstInFlight(ts) + MaxOvertake

\* asyncio.gather: the result list follows the order of the awaitables passed.
\* (StoreFirstFree: results collected in completion order instead.)
StoreFirstFree(res, i, r) ==
    LET k == CHOOSE k \in DOMAIN res : res[k] = 0 /\ \A j \in 1..(k - 1) : res[j] # 0
    IN  [res EXCEPT ![k] = r]
StoreResult(res, i, r) == [res EXCEPT ![i] = r]

\* asyncio.run: the tasks still pending when run() ends are cancelled
CancelPending(ts) == [i \in DOMAIN ts |-> IF ts[i] = "inflight" THEN "cancelled" ELSE ts[i]]

\* download / Dataset.download_files: one transfer per file of each dataset, in order
Targets(ds, f) ==
    [k \in 1..(Len(ds) * f) |-> <<ds[((k - 1) \div f) + 1], ((k - 1) % f) + 1>>]

\* save_metadata: datasets-metadata-{int(time.time())}.json
MetaName(now) == now \div TicksPerSecond

\* save_metadata: open(filename, "w") creates or truncates, json.dump writes
WriteDoc(docs, name, content) ==
    [n \in DOMAIN docs \cup {name} |-> IF n = name THEN content ELSE docs[n]]

-----------------------------------------------------------------------------
\* The state before run() constructs the Scraper

Fresh(c) ==
    /\ count = c
    /\ filesPer = 0
    /\ pc = "start"
    /\ error = "none"
    /\ sessionOpen = FALSE
    /\ length = 0
    /\ max_pages = 0
    /\ requested = {}
    /\ pages = 0
    /\ last_page_item = 0
    /\ page = 0
    /\ coros = <<>>
    /\ fetches = <<>>
    /\ results = <<>>
    /\ outOfOrder = FALSE
    /\ datasets = <<>>
    /\ dlSessionOpen = FALSE
    /\ waits = <<>>
    /\ transfers = <<>>
    /\ downloadCalled = FALSE
    /\ saveCalled = FALSE

InitWith(maxTotal, maxNeg) ==
    /\ total \in 0..maxTotal
    /\ \E c \in (-maxNeg)..(maxTotal + 1) : Fresh(c)
    /\ disk = {}
    /\ rootDir \in BOOLEAN
    /\ metaDocs = <<>>
    /\ clock = 0
    /\ runs = 1

Init == InitWith(MaxTotal, MaxNeg)

InitRerun == InitWith(MaxRerunTotal, 1)

-----------------------------------------------------------------------------
\* Scraper.__init__ (called at __main__.py:58, outside the try): the session, the
\* page-1 request (raise_for_status may raise), get_length (the count element may
\* be missing or not a number), max_pages.  The format_type assert precedes the
\* session and always holds for the choices argparse admits.
Construct ==
    /\ pc = "start"
    /\ \E outcome \in {"ok", "http_error", "parse_error"} :
        /\ sessionOpen' = TRUE
        /\ requested' = IF outcome = "http_error" THEN requested ELSE requested \cup {1}
        /\ IF outcome = "ok"
           THEN /\ length' = total
                /\ max_pages' = MaxPages(total)
                /\ pc' = "get_datasets"
                /\ error' = "none"
           ELSE /\ UNCHANGED <<length, max_pages>>
                /\ pc' = "crashed"
                /\ error' = outcome
    /\ UNCHANGED <<env, count, pages, last_page_item, page, coros, fetches, results,
                   outOfOrder, datasets, dlSessionOpen, waits, transfers,
                   downloadCalled, saveCalled, files, runs>>

\* get_datasets up to the page loop: the two asserts, pages, last_page_item
GetDatasets ==
    /\ pc = "get_datasets"
    /\ IF CountValid(count, length) /\ PagesValid(PagesNeeded(count), max_pages)
       THEN /\ pages' = PagesNeeded(count)
            /\ last_page_item' = LastPageItem(count, PagesNeeded(count))
            /\ page' = 1
            /\ pc' = "paging"
            /\ error' = "none"
       ELSE /\ UNCHANGED <<pages, last_page_item, page>>
            /\ pc' = "finally"
            /\ error' = "precondition"
    /\ UNCHANGED <<env, count, sessionOpen, length, max_pages, requested, coros,
                   fetches, results, outOfOrder, datasets, dlSessionOpen, waits,
                   transfers, downloadCalled, saveCalled, files, runs>>

\* One iteration of the page loop: search(page), the rows, the last page's slice,
\* one coroutine per kept row
SearchPage ==
    /\ pc = "paging"
    /\ page <= pages
    /\ \E ok \in (IF page = 1 THEN {TRUE} ELSE BOOLEAN) :
        /\ requested' = IF page = 1 THEN requested ELSE requested \cup {page}
        /\ IF ok
           THEN /\ coros' = coros \o Keep(ServerRows(total, page), page, pages, last_page_item)
                /\ page' = page + 1
                /\ UNCHANGED <<pc, error>>
           ELSE /\ UNCHANGED <<coros, page>>
                /\ pc' = "finally"
                /\ error' = "http_error"
    /\ UNCHANGED <<env, count, sessionOpen, length, max_pages, pages, last_page_item,
                   fetches, results, outOfOrder, datasets, dlSessionOpen, waits,
                   transfers, downloadCalled, saveCalled, files, runs>>

\* asyncio.gather(*datasets): every get_dataset coroutine runs to its session.get
GatherFetches ==
    /\ pc = "paging"
    /\ page > pages
    /\ fetches' = StartAll(Len(coros))
    /\ results' = [i \in 1..Len(coros) |-> 0]
    /\ pc' = "gathering"
    /\ UNCHANGED <<env, count, error, sessionOpen, length, max_pages, requested, pages,
                   last_page_item, page, coros, outOfOrder, datasets, dlSessionOpen,
                   waits, transfers, downloadCalled, saveCalled, files, runs>>

\* get_dataset after its await: raise_for_status, the soup, Dataset(...).
\* Once a child has failed, the gather's raise is the next step taken.
CompleteFetch ==
    /\ pc = "gathering"
    /\ ~SomeFailed(fetches)
    /\ \E i \in DOMAIN fetches, outcome \in {"ok", "http_error", "parse_error"} :
        /\ CanComplete(fetches, i)
        /\ outOfOrder' = (outOfOrder \/ i > FirstInFlight(fetches))
        /\ IF outcome = "ok"
           THEN /\ fetches' = [fetches EXCEPT ![i] = "done"]
                /\ results' = StoreResult(results, i, coros[i])
           ELSE /\ fetches' = [fetches EXCEPT ![i] = "failed"]
                /\ UNCHANGED results
    /\ UNCHANGED <<env, count, pc, error, sessionOpen, length, max_pages, requested,
                   pages, last_page_item, page, coros, datasets, dlSessionOpen, waits,
                   transfers, downloadCalled, saveCalled, files, runs>>

\* The gather is done: self.datasets = the Dataset objects (each with its files); return
FetchesReturn ==
    /\ pc = "gathering"
    /\ AllDone(fetches)
    /\ datasets' = results
    /\ \E f \in 0..MaxFiles : filesPer' = f
    /\ pc' = "download"
    /\ UNCHANGED <<total, count, error, sessionOpen, length, max_pages, requested, pages,
                   last_page_item, page, coros, fetches, results, outOfOrder,
                   dlSessionOpen, waits, transfers, downloadCalled, saveCalled, files,
                   runs>>

\* The gather raises a child's exception; get_datasets propagates it
FetchesRaise ==
    /\ pc = "gathering"
    /\ SomeFailed(fetches)
    /\ pc' = "finally"
    /\ error' = "fetch_failed"
    /\ UNCHANGED <<env, count, sessionOpen, length, max_pages, requested, pages,
                   last_page_item, page, coros, fetches, results, outOfOrder, datasets,
                   dlSessionOpen, waits, transfers, downloadCalled, saveCalled, files,
                   runs>>

\* download() up to its gather: the session, one download_file per file
Download ==
    /\ pc = "download"
    /\ downloadCalled' = TRUE
    /\ dlSessionOpen' = TRUE
    /\ waits' = Targets(datasets, filesPer)
    /\ transfers' = StartAll(Len(datasets) * filesPer)
    /\ pc' = "downloading"
    /\ UNCHANGED <<env, count, error, sessionOpen, length, max_pages, requested, pages,
                   last_page_item, page, coros, fetches, results, outOfOrder, datasets,
                   saveCalled, files, runs>>

\* download_file after its await: read, makedirs, write.
\* Once a child has failed, the gather's raise is the next step taken.
CompleteTransfer ==
    /\ pc = "downloading"
    /\ ~SomeFailed(transfers)
    /\ \E k \in DOMAIN transfers, ok \in BOOLEAN :
        /\ CanComplete(transfers, k)
        /\ IF ok
           THEN /\ transfers' = [transfers EXCEPT ![k] = "done"]
                /\ disk' = disk \cup {waits[k]}
                /\ rootDir' = TRUE
           ELSE /\ transfers' = [transfers EXCEPT ![k] = "failed"]
                /\ UNCHANGED <<disk, rootDir>>
    /\ UNCHANGED <<env, count, pc, error, sessionOpen, length, max_pages, requested,
                   pages, last_page_item, page, coros, fetches, results, outOfOrder,
                   datasets, dlSessionOpen, waits, downloadCalled, saveCalled,
                   metaDocs, clock, runs>>

\* The gather is done: the log line, the session's __aexit__
DownloadReturn ==
    /\ pc = "downloading"
    /\ AllDone(transfers)
    /\ dlSessionOpen' = FALSE
    /\ pc' = "save_metadata"
    /\ UNCHANGED <<env, count, error, sessionOpen, length, max_pages, requested, pages,
                   last_page_item, page, coros, fetches, results, outOfOrder, datasets,
                   waits, transfers, downloadCalled, saveCalled, files, runs>>

\* The gather raises a transfer's exception through the `async with`
DownloadRaise ==
    /\ pc = "downloading"
    /\ SomeFailed(transfers)
    /\ dlSessionOpen' = FALSE
    /\ pc' = "finally"
    /\ error' = "transfer_failed"
    /\ UNCHANGED <<env, count, sessionOpen, length, max_pages, requested, pages,
                   last_page_item, page, coros, fetches, results, outOfOrder, datasets,
                   waits, transfers, downloadCalled, saveCalled, files, runs>>

\* save_metadata: the name from the clock, open(..., "w"), json.dump
SaveMetadata ==
    /\ pc = "save_metadata"
    /\ saveCalled' = TRUE
    /\ \E now \in clock..MaxClock :
        /\ clock' = now
        /\ IF rootDir
           THEN /\ metaDocs' = WriteDoc(metaDocs, MetaName(now), datasets)
                /\ error' = "none"
           ELSE /\ UNCHANGED metaDocs
                /\ error' = "no_directory"
    /\ pc' = "finally"
    /\ UNCHANGED <<env, count, sessionOpen, length, max_pages, requested, pages,
                   last_page_item, page, coros, fetches, results, outOfOrder, datasets,
                   dlSessionOpen, waits, transfers, downloadCalled, disk, rootDir, runs>>

\* run()'s finally, then asyncio.run ends the loop
Finally ==
    /\ pc = "finally"
    /\ sessionOpen' = FALSE
    /\ fetches' = CancelPending(fetches)
    /\ transfers' = CancelPending(transfers)
    /\ pc' = IF error = "none" THEN "done" ELSE "failed"
    /\ UNCHANGED <<env, count, error, length, max_pages, requested, pages,
                   last_page_item, page, coros, results, outOfOrder, datasets,
                   dlSessionOpen, waits, downloadCalled, saveCalled, files, runs>>

\* The program is run again: a new process, the same home directory
Rerun ==
    /\ pc \in {"done", "failed", "crashed"}
    /\ runs < MaxRuns
    /\ runs' = runs + 1
    /\ \E c \in (-1)..(MaxRerunTotal + 1) : count' = c
    /\ filesPer' = 0
    /\ pc' = "start"
    /\ error' = "none"
    /\ sessionOpen' = FALSE
    /\ length' = 0
    /\ max_pages' = 0
    /\ requested' = {}
    /\ pages' = 0
    /\ last_page_item' = 0
    /\ page' = 0
    /\ coros' = <<>>
    /\ fetches' = <<>>
    /\ results' = <<>>
    /\ outOfOrder' = FALSE
    /\ datasets' = <<>>
    /\ dlSessionOpen' = FALSE
    /\ waits' = <<>>
    /\ transfers' = <<>>
    /\ downloadCalled' = FALSE
    /\ saveCalled' = FALSE
    /\ UNCHANGED <<total, files>>

Next ==
    \/ Construct
    \/ GetDatasets
    \/ SearchPage
    \/ GatherFetches
    \/ CompleteFetch
    \/ FetchesReturn
    \/ FetchesRaise
    \/ Download
    \/ CompleteTransfer
    \/ DownloadReturn
    \/ DownloadRaise
    \/ SaveMetadata
    \/ Finally

NextRerun == Next \/ Rerun

Spec == Init /\ [][Next]_vars

SpecRerun == InitRerun /\ [][NextRerun]_vars

-----------------------------------------------------------------------------
\* Properties

\* get_datasets has returned in this run (self.datasets is what it returned)
EnumReturned ==
    \/ pc \in {"download", "downloading", "save_metadata"}
    \/ pc \in {"finally", "done", "failed"} /\ downloadCalled

\* run() has ended, with or without an exception
RunEnded == pc \in {"done", "failed", "crashed"}

\* The k-th record in page-then-row order of the catalog
Traversal(k) == ServerRows(total, ((k - 1) \div PER_PAGE) + 1)[((k - 1) % PER_PAGE) + 1]

\* C1 as stated: for every count <= length, get_datasets returns exactly count
\* records.
C1_ExactCountAnyCount ==
    (EnumReturned /\ count <= length) => Len(datasets) = count

\* C1, amended: for every count with 0 <= count <= length, get_datasets returns
\* exactly count records; the last page's kept rows number last_page_item =
\* count - (pages - 1) * PER_PAGE and the pages before it are kept in full.
C1_ExactCount ==
    (EnumReturned /\ 0 <= count /\ count <= length) =>
        /\ Len(datasets) = count
        /\ Len(coros) = count
        /\ count > 0 =>
            /\ last_page_item = count - (pages - 1) * PER_PAGE
            /\ Len(coros) - (pages - 1) * PER_PAGE = last_page_item

\* C1's case: a two-page enumeration whose last page was cut short of the rows
\* the server listed on it.
C1_Witness ==
    /\ EnumReturned
    /\ count > PER_PAGE
    /\ count % PER_PAGE # 0
    /\ count < length
    /\ Len(datasets) = count

\* C2: with count > length, get_datasets raises the precondition error and does
\* nothing else: no result page beyond page 1 is requested, no detail fetch is
\* created or issued, self.datasets is as it was, download is not reached.
C2_RejectsTooMany ==
    (pc \notin {"start", "crashed", "get_datasets"} /\ count > length) =>
        /\ error = "precondition"
        /\ requested \subseteq {1}
        /\ coros = <<>>
        /\ fetches = <<>>
        /\ datasets = <<>>
        /\ ~downloadCalled

\* C2's case: the run ended on the precondition error of a too large count.
C2_Witness ==
    /\ pc = "failed"
    /\ error = "precondition"
    /\ length > 0
    /\ count > length

\* C3 as stated: a failed transfer leaves every other transfer to run to its end,
\* its file written (checked when the run has ended).
C3_DownloadIsolation ==
    (RunEnded /\ SomeFailed(transfers)) =>
        \A k \in DOMAIN transfers : transfers[k] = "failed" \/ waits[k] \in disk

\* C4 as stated: a failed detail fetch costs that record only: the other fetches
\* are not stopped and the run goes on to download and save_metadata.
C4_FetchFailureContained ==
    (RunEnded /\ SomeFailed(fetches)) =>
        /\ \A i \in DOMAIN fetches : fetches[i] # "cancelled"
        /\ downloadCalled
        /\ saveCalled

\* C5 as stated: when get_datasets returned no record, neither download nor
\* save_metadata is invoked and no metadata document is written.
C5_NothingOnEmpty ==
    (EnumReturned /\ datasets = <<>>) =>
        /\ ~downloadCalled
        /\ ~saveCalled
        /\ metaDocs = <<>>

\* C6 as stated: a run that ended with an error has closed the scraper's session,
\* the bootstrap's failures included.
C6_SessionReleased ==
    (RunEnded /\ error # "none") => ~sessionOpen

\* C7: the records get_datasets returns are in page-then-row order, whatever the
\* order in which the detail fetches completed.
C7_TraversalOrder ==
    EnumReturned => \A k \in 1..Len(datasets) : datasets[k] = Traversal(k)

\* C7's case: a two-page enumeration returned after some detail fetch finished
\* before an earlier-submitted one.
C7_Witness ==
    /\ EnumReturned
    /\ outOfOrder
    /\ Len(datasets) > PER_PAGE

\* C8 as stated: a write of the metadata document never replaces an earlier
\* document: every document there before a step is there after it, unchanged.
C8_EarlierDocumentsKept ==
    [][\A n \in DOMAIN metaDocs : n \in DOMAIN metaDocs' /\ metaDocs'[n] = metaDocs[n]]_vars

\* C9: past the validation, pages is the ceiling of count / PER_PAGE (1 -> 1,
\* 20 -> 1, 21 -> 2), count <= length and pages <= max_pages, max_pages being the
\* ceiling of length / PER_PAGE; when the validation fails, and only then, the
\* precondition error is raised, with no page fetched and no coroutine created.
C9_PagesAndValidation ==
    (pc \notin {"start", "crashed", "get_datasets"}) =>
        /\ (max_pages - 1) * PER_PAGE < length /\ length <= max_pages * PER_PAGE
        /\ IF count <= length
           THEN /\ error # "precondition"
                /\ (pages - 1) * PER_PAGE < count /\ count <= pages * PER_PAGE
                /\ count = 1 => pages = 1
                /\ count = PER_PAGE => pages = 1
                /\ count = PER_PAGE + 1 => pages = 2
                /\ pages <= max_pages
           ELSE /\ error = "precondition"
                /\ requested \subseteq {1}
                /\ coros = <<>>

\* C9's case: the page loop of a count of PER_PAGE + 1 runs over two pages.
C9_Witness ==
    /\ pc = "paging"
    /\ count = PER_PAGE + 1
    /\ pages = 2

\* C10 as stated: at most PER_PAGE detail fetches are in flight at once.
C10_FanOutWithinPage == InFlight(fetches) <= PER_PAGE

\* C10, amended: for a count >= 0 at most count detail fetches are in flight at
\* once (the kept rows of all the pages are gathered together).
C10_FanOutWithinCount == count >= 0 => InFlight(fetches) <= count

\* C10's case: all the detail fetches of a two-page enumeration in flight at once.
C10_Witness ==
    /\ pc = "gathering"
    /\ count > PER_PAGE
    /\ InFlight(fetches) = count

=============================================================================
